---- MODULE Spec2Model ----
(***************************************************************************)
(* A model of x86.h of xv6: the routines that let C code use special x86   *)
(* instructions, and the layout of the trap frame.                         *)
(*                                                                         *)
(* Each routine is a thin wrapper around one instruction, so the model is  *)
(* the machine state the instruction acts on (shared memory behind         *)
(* per-processor store buffers and the bus lock, the byte-addressed RAM,   *)
(* EFLAGS, the I/O port space, GDTR/IDTR) and one action per routine.      *)
(***************************************************************************)
EXTENDS Integers, Sequences, FiniteSets, TLC

VARIABLES
  mem, sb, lk, cpu, gh,        \* the multiprocessor: xchg
  pd, gdtr, idtr, dcall,       \* descriptor-table registers: lgdt, lidt
  ram, eflags, ports, scall,   \* one processor's RAM, EFLAGS and I/O ports
  tf, shadow                   \* a trap frame in memory

smpVars == <<mem, sb, lk, cpu, gh>>
descVars == <<pd, gdtr, idtr, dcall>>
uniVars == <<ram, eflags, ports, scall>>
frameVars == <<tf, shadow>>
vars == <<smpVars, descVars, uniVars, frameVars>>

\* The parts of the machine a specification leaves out stay as they are here.
SmpIdle == mem = <<>> /\ sb = <<>> /\ lk = {} /\ cpu = <<>> /\ gh = <<>>
DescIdle == pd = <<>> /\ gdtr = <<>> /\ idtr = <<>> /\ dcall = <<>>
UniIdle == ram = <<>> /\ eflags = 0 /\ ports = <<>> /\ scall = <<>>
FrameIdle == tf = <<>> /\ shadow = <<>>
OnlySmp == UNCHANGED <<descVars, uniVars, frameVars>>
OnlyDesc == UNCHANGED <<smpVars, uniVars, frameVars>>
OnlyUni == UNCHANGED <<smpVars, descVars, frameVars>>
OnlyFrame == UNCHANGED <<smpVars, descVars, uniVars>>

(***************************************************************************)
(* Bounds of the model.                                                    *)
(***************************************************************************)
NCpu == 3          \* processors (execution contexts)
MaxVal == 3        \* exchanged values are 0..MaxVal
MemSize == 8       \* bytes of RAM
MaxCnt == 2        \* largest count handed to stosb, stosl and insl
MaxOps == 2        \* string operations in one run
MaxStores == 2     \* fields of the trap frame stored in one run

(***************************************************************************)
(* Integer widths: uchar, ushort and uint of the 32-bit x86 target.        *)
(***************************************************************************)
ToUchar(x) == x % 256
ToUshort(x) == x % 65536

(***************************************************************************)
(* The multiprocessor (x86-TSO): shared 32-bit words, one FIFO store buffer *)
(* per processor, and the bus lock that a LOCK'd instruction holds (lk is  *)
(* the set of its holders, empty when the bus is free).                    *)
(***************************************************************************)
Cpus == 1..NCpu
NoCpu == {}
Addrs == {"F", "D"}
Vals == 0..MaxVal

\* A processor that is not executing xchg, at program position 0.
CpuReset == [pc |-> "idle", ip |-> 0, addr |-> "F", newval |-> 0, tmp |-> 0, eax |-> 0,
             r1 |-> 0, r2 |-> 0]

\* What processor p reads at addr a: its own newest buffered store, else memory.
Pending(buf, a) == {i \in 1..Len(buf) : buf[i][1] = a}
LoadVal(m, buf, a) ==
  IF Pending(buf, a) = {} THEN m[a]
  ELSE buf[CHOOSE i \in Pending(buf, a) : \A j \in Pending(buf, a) : j <= i][2]

\* An exchange that does not wait for the bus lock (two loads and two stores).
CanLockAlways(l) == TRUE

\* The bus lock is free: a LOCK'd instruction may begin.
CanLock(l) == l = NoCpu

\* Processor p is not held off the bus by another processor's LOCK'd instruction.
NotBlocked(l, p) == l \subseteq {p}

\* An exchange that overtakes the processor's buffered stores.
DrainedAlways(buf) == TRUE

\* A LOCK'd instruction is a full barrier: every earlier store of the processor
\* has left the store buffer before the exchange touches memory.
Drained(buf) == buf = <<>>

\* An exchange whose memory operand is only read ("m" for "+m").
XchgStoreNone(m, a, v) == m

\* The store half of xchgl: operand %0 ("+m" (*addr)) receives newval.
XchgStore(m, a, v) == [m EXCEPT ![a] = v]

\* The load half of xchgl: operand %1 ("=a" (result)) receives the old content.
XchgLoad(m, a) == m[a]

\* An ordinary store (movl) enters the processor's store buffer.
Store(p, a, v) ==
  /\ sb' = [sb EXCEPT ![p] = Append(@, <<a, v>>)]
  /\ UNCHANGED <<mem, lk>>

\* Nothing but the program position of p is left to change.
Advance(p) == cpu' = [cpu EXCEPT ![p].ip = @ + 1]

\* The oldest buffered store of p reaches memory.
Flush(p) ==
  /\ sb[p] # <<>>
  /\ NotBlocked(lk, p)
  /\ mem' = [mem EXCEPT ![Head(sb[p])[1]] = Head(sb[p])[2]]
  /\ sb' = [sb EXCEPT ![p] = Tail(@)]
  /\ UNCHANGED <<lk, cpu>>

\* xchg(addr, newval), entered: the operands are in place.
XchgEnter(c, a, v) == [c EXCEPT !.pc = "lock", !.addr = a, !.newval = v]

\* An ordinary load (movl): from the processor's own store buffer, else from memory.
Load(p, a) == LoadVal(mem, sb[p], a)

\* lock; xchgl: the processor takes the bus lock,
XchgLock(p) ==
  /\ cpu[p].pc = "lock"
  /\ CanLock(lk)
  /\ lk' = {p}
  /\ cpu' = [cpu EXCEPT ![p].pc = "read"]
  /\ UNCHANGED <<mem, sb>>

\* reads the old content of *addr once its store buffer is drained,
XchgRead(p) ==
  /\ cpu[p].pc = "read"
  /\ Drained(sb[p])
  /\ cpu' = [cpu EXCEPT ![p].pc = "write", ![p].tmp = XchgLoad(mem, cpu[p].addr)]
  /\ UNCHANGED <<mem, sb, lk>>

\* writes newval to *addr,
XchgWrite(p) ==
  /\ cpu[p].pc = "write"
  /\ mem' = XchgStore(mem, cpu[p].addr, cpu[p].newval)
  /\ cpu' = [cpu EXCEPT ![p].pc = "unlock"]
  /\ UNCHANGED <<sb, lk>>

\* releases the bus lock, and xchg returns result.
XchgUnlock(p) ==
  /\ cpu[p].pc = "unlock"
  /\ p \in lk
  /\ lk' = NoCpu
  /\ cpu' = [cpu EXCEPT ![p].pc = "ret", ![p].eax = cpu[p].tmp]
  /\ UNCHANGED <<mem, sb>>

\* The steps of an xchg in flight on processor p.
XchgStep(p) == XchgLock(p) \/ XchgRead(p) \/ XchgWrite(p) \/ XchgUnlock(p)

SmpInit ==
  /\ sb = [p \in Cpus |-> <<>>]
  /\ lk = NoCpu
  /\ cpu = [p \in Cpus |-> CpuReset]

(***************************************************************************)
(* SpecXchg: every processor calls xchg("F", newval) once, concurrently.   *)
(* gh remembers the initial content of the location.                       *)
(***************************************************************************)
XInit ==
  /\ SmpInit /\ DescIdle /\ UniIdle /\ FrameIdle
  /\ \E v0 \in Vals : mem = [a \in Addrs |-> IF a = "F" THEN v0 ELSE 0] /\ gh = v0

XCall(p) ==
  /\ cpu[p].pc = "idle"
  /\ \E v \in Vals : cpu' = [cpu EXCEPT ![p] = XchgEnter(@, "F", v)]
  /\ UNCHANGED <<mem, sb, lk, gh>>
  /\ OnlySmp

XStep(p) == XchgStep(p) /\ UNCHANGED gh /\ OnlySmp

XNext == \E p \in Cpus : XCall(p) \/ XStep(p)

SpecXchg == XInit /\ [][XNext]_vars

\* The calls that have returned, the calls that have stored, the calls in flight,
\* and the orders of a set.
Returned == {p \in Cpus : cpu[p].pc = "ret"}
Stored == {p \in Cpus : cpu[p].pc \in {"unlock", "ret"}}
InFlight == {p \in Cpus : cpu[p].pc \in {"lock", "read", "write", "unlock"}}
Orders(S) == {f \in [1..Cardinality(S) -> S] : \A i, j \in 1..Cardinality(S) : f[i] = f[j] => i = j}

\* f is a total order of the returned calls that explains every result and the
\* final content of the location, whose initial content was v0.
Explains(f, n, v0) ==
  /\ \A i \in 1..n : cpu[f[i]].eax = IF i = 1 THEN v0 ELSE cpu[f[i-1]].newval
  /\ mem["F"] = IF n = 0 THEN v0 ELSE cpu[f[n]].newval

\* C1: xchg is atomic. Whenever no call is in flight, some total order of the
\* returned calls has each call return the value stored by the call before it (the
\* first returns the initial content) and the location hold the last call's newval;
\* no call returns a value that was never stored; and when the written values are
\* distinct and differ from the initial content, no two calls return the same value.
C1_XchgAtomic ==
  /\ InFlight = {} => \E f \in Orders(Returned) : Explains(f, Cardinality(Returned), gh)
  /\ \A p \in Returned : cpu[p].eax \in {gh} \cup {cpu[q].newval : q \in Stored \ {p}}
  /\ (\A p, q \in Returned : cpu[p].newval # gh /\ (p # q => cpu[p].newval # cpu[q].newval))
       => \A p, q \in Returned : p # q => cpu[p].eax # cpu[q].eax
  /\ mem["D"] = 0

\* Three calls with distinct new values, none the initial content, have all returned.
C1_Witness ==
  /\ Cardinality(Returned) >= 3 /\ InFlight = {}
  /\ \A p, q \in Returned : cpu[p].newval # gh /\ (p # q => cpu[p].newval # cpu[q].newval)
  /\ \E p \in Returned : cpu[p].eax # gh

(***************************************************************************)
(* SpecBarrier: processor 1 stores 1 to "D" and calls xchg("F", 1), in     *)
(* either program order (gh.first); processor 2 loads "F" and then "D";    *)
(* every other processor p stores p to "D".  gh.dorder lists the values    *)
(* that reached "D" in memory, in order.                                   *)
(***************************************************************************)
Writer == 1
Reader == Writer + 1
Others == Cpus \ {Writer, Reader}

BInit ==
  /\ SmpInit /\ DescIdle /\ UniIdle /\ FrameIdle
  /\ mem = [a \in Addrs |-> 0]
  /\ \E o \in {"store", "xchg"} : gh = [first |-> o, dorder |-> <<>>]

\* The next instruction of the writer's program is its k-th.
WriterAt(k) == cpu[Writer].pc \in {"idle", "ret"} /\ cpu[Writer].ip = k

BStore ==
  /\ WriterAt(IF gh.first = "store" THEN 0 ELSE 1)
  /\ Store(Writer, "D", 1)
  /\ Advance(Writer)
  /\ UNCHANGED gh
  /\ OnlySmp

BXchg ==
  /\ WriterAt(IF gh.first = "xchg" THEN 0 ELSE 1)
  /\ cpu' = [cpu EXCEPT ![Writer] = XchgEnter([@ EXCEPT !.ip = @ + 1], "F", 1)]
  /\ UNCHANGED <<mem, sb, lk, gh>>
  /\ OnlySmp

BStep == XchgStep(Writer) /\ UNCHANGED gh /\ OnlySmp

BLoadF ==
  /\ cpu[Reader].ip = 0
  /\ NotBlocked(lk, Reader)
  /\ cpu' = [cpu EXCEPT ![Reader].ip = 1, ![Reader].r1 = Load(Reader, "F")]
  /\ UNCHANGED <<mem, sb, lk, gh>>
  /\ OnlySmp

BLoadD ==
  /\ cpu[Reader].ip = 1
  /\ NotBlocked(lk, Reader)
  /\ cpu' = [cpu EXCEPT ![Reader].ip = 2, ![Reader].r2 = Load(Reader, "D")]
  /\ UNCHANGED <<mem, sb, lk, gh>>
  /\ OnlySmp

BOther(p) ==
  /\ cpu[p].ip = 0
  /\ Store(p, "D", p)
  /\ Advance(p)
  /\ UNCHANGED gh
  /\ OnlySmp

BFlush(p) ==
  /\ Flush(p)
  /\ gh' = IF Head(sb[p])[1] = "D" THEN [gh EXCEPT !.dorder = Append(@, Head(sb[p])[2])] ELSE gh
  /\ OnlySmp

BNext ==
  \/ BStore \/ BXchg \/ BStep \/ BLoadF \/ BLoadD
  \/ \E p \in Others : BOther(p)
  \/ \E p \in Cpus : BFlush(p)

SpecBarrier == BInit /\ [][BNext]_vars

\* The contents "D" has had, oldest first, and whether v came no later than w.
DHistory == <<0>> \o gh.dorder
NoLater(v, w) == \E i, j \in 1..Len(DHistory) : DHistory[i] = v /\ DHistory[j] = w /\ i <= j

\* C2: xchg is a full barrier. When the writer stored to "D" before its xchg("F", 1)
\* and the reader saw 1 in "F" and then read "D", the reader read the writer's store
\* or a later one, never an older content of "D".
C2_XchgBarrier ==
  (gh.first = "store" /\ cpu[Reader].ip = 2 /\ cpu[Reader].r1 = 1)
    => NoLater(1, cpu[Reader].r2)

\* The reader saw the exchanged value and then a store to "D" later than the writer's.
C2_Witness ==
  /\ gh.first = "store" /\ cpu[Reader].ip = 2 /\ cpu[Reader].r1 = 1
  /\ cpu[Reader].r2 # 1 /\ NoLater(1, cpu[Reader].r2)

(***************************************************************************)
(* SpecLock: a test-and-set lock on "F".  Every processor acquires by      *)
(* repeating xchg("F", 1) until it returns 0, and releases by storing 0.   *)
(* ip = 1 while the processor holds the lock; gh counts the xchg calls     *)
(* that returned 0 since the last release.                                 *)
(***************************************************************************)
LInit ==
  /\ SmpInit /\ DescIdle /\ UniIdle /\ FrameIdle
  /\ mem = [a \in Addrs |-> 0]
  /\ gh = 0

LAcquire(p) ==
  /\ cpu[p].pc = "idle" /\ cpu[p].ip = 0
  /\ cpu' = [cpu EXCEPT ![p] = XchgEnter(@, "F", 1)]
  /\ UNCHANGED <<mem, sb, lk, gh>>
  /\ OnlySmp

LStep(p) ==
  /\ XchgStep(p)
  /\ gh' = IF cpu'[p].pc = "ret" /\ cpu'[p].eax = 0 THEN gh + 1 ELSE gh
  /\ OnlySmp

\* while(xchg(&lk, 1) != 0) ;
LTest(p) ==
  /\ cpu[p].pc = "ret"
  /\ cpu' = [cpu EXCEPT ![p].pc = "idle", ![p].ip = IF cpu[p].eax = 0 THEN 1 ELSE 0]
  /\ UNCHANGED <<mem, sb, lk, gh>>
  /\ OnlySmp

LRelease(p) ==
  /\ cpu[p].pc = "idle" /\ cpu[p].ip = 1
  /\ Store(p, "F", 0)
  /\ cpu' = [cpu EXCEPT ![p].ip = 0]
  /\ gh' = 0
  /\ OnlySmp

LFlush(p) == Flush(p) /\ UNCHANGED gh /\ OnlySmp

LNext == \E p \in Cpus : LAcquire(p) \/ LStep(p) \/ LTest(p) \/ LRelease(p) \/ LFlush(p)

SpecLock == LInit /\ [][LNext]_vars

\* p is between a successful acquire and its release.
Holding(p) == (cpu[p].pc = "ret" /\ cpu[p].eax = 0) \/ cpu[p].ip = 1

\* C10: xchg suffices for a test-and-set lock. At most one processor is between a
\* successful acquire and its release, and at most one xchg("F", 1) has returned 0
\* since the last release.
C10_MutualExclusion ==
  /\ Cardinality({p \in Cpus : Holding(p)}) <= 1
  /\ gh <= 1

\* A processor holds the lock that another released, while a third has just lost.
C10_Witness ==
  \E p, q, r \in Cpus :
    /\ cpu[p].ip = 1 /\ cpu[p].eax = 0
    /\ q # p /\ cpu[q].pc = "ret" /\ cpu[q].eax = 1
    /\ r # p /\ r # q /\ cpu[r].tmp = 0 /\ cpu[r].newval = 1 /\ cpu[r].pc = "idle"

(***************************************************************************)
(* 32-bit quantities (uint, pointers) are kept as their four bytes, least  *)
(* significant first, as they lie in memory.                               *)
(***************************************************************************)
Bytes4(b0, b1, b2, b3) == [i \in 0..3 |-> IF i = 0 THEN b0 ELSE IF i = 1 THEN b1 ELSE IF i = 2 THEN b2 ELSE b3]
UintOfHalves(lo, hi) == Bytes4(lo % 256, lo \div 256, hi % 256, hi \div 256)

\* (ushort)w of a uint w: its low 16 bits.
UintToUshort(w) == w[0] + 256 * w[1]

\* w >> 16 of a uint w (a logical shift: zeros enter from the top).
Shr8(w) == [i \in 0..3 |-> IF i + 1 <= 3 THEN w[i + 1] ELSE 0]
Shr16(w) == [i \in 0..3 |-> IF i + 2 <= 3 THEN w[i + 2] ELSE 0]

(***************************************************************************)
(* SpecDesc: lgdt and lidt.  Each builds the 6-byte pseudo-descriptor pd   *)
(* and hands it to the load instruction, which sets GDTR or IDTR from it.  *)
(***************************************************************************)
\* pd[0] = size-1;  (an int, converted to ushort)
PdLimit(size) == ToUshort(size - 1)

\* pd[1] = (uint)p;
PdBaseLo(p) == UintToUshort(p)

\* pd[2] = (uint)p >> 16;
PdBaseHiShr8(p) == UintToUshort(Shr8(p))
PdBaseHi(p) == UintToUshort(Shr16(p))

MakePd(p, size) == [i \in 0..2 |-> IF i = 0 THEN PdLimit(size) ELSE IF i = 1 THEN PdBaseLo(p) ELSE PdBaseHi(p)]

\* lgdt (%0), lidt (%0): the processor reads a 16-bit limit and a 32-bit base.
LoadDtr(d) == [limit |-> d[0], base |-> UintOfHalves(d[1], d[2])]

\* The table addresses and sizes tried: both halves of the address take the
\* corner values of 16 bits, and the sizes reach both ends of [1, 65536] and
\* one step past each.
HalfVals == {0, 32784, 65535}
BaseAddrs == {UintOfHalves(lo, hi) : lo \in HalfVals, hi \in HalfVals}
Sizes == {0, 1, 48, 2048, 65536, 65537}

DInit ==
  /\ SmpIdle /\ UniIdle /\ FrameIdle
  /\ pd = MakePd(UintOfHalves(0, 0), 1)
  /\ gdtr = LoadDtr(pd) /\ idtr = LoadDtr(pd)
  /\ dcall = [fn |-> "none", p |-> UintOfHalves(0, 0), size |-> 1]

lgdt(p, size) ==
  /\ pd' = MakePd(p, size)
  /\ gdtr' = LoadDtr(pd')
  /\ dcall' = [fn |-> "lgdt", p |-> p, size |-> size]
  /\ UNCHANGED idtr

lidt(p, size) ==
  /\ pd' = MakePd(p, size)
  /\ idtr' = LoadDtr(pd')
  /\ dcall' = [fn |-> "lidt", p |-> p, size |-> size]
  /\ UNCHANGED gdtr

DLgdt == \E p \in BaseAddrs, size \in Sizes : lgdt(p, size) /\ OnlyDesc
DLidt == \E p \in BaseAddrs, size \in Sizes : lidt(p, size) /\ OnlyDesc

DNext == DLgdt \/ DLidt

SpecDesc == DInit /\ [][DNext]_vars

\* x & 0xFFFF and x >> 16 of a 32-bit x given as 32 bits: by bits, not by bytes.
BitsOf(n, k) == [i \in 0..(k - 1) |-> (n \div (2^i)) % 2]
UintBits(w) == [i \in 0..31 |-> BitsOf(w[i \div 8], 8)[i % 8]]
Low16Bits(bits) == [i \in 0..15 |-> bits[i]]
High16Bits(bits) == [i \in 0..15 |-> bits[i + 16]]

\* C3: for every size in [1, 65536] and every 32-bit base p, the record handed to
\* lgdt/lidt has pd[0] = (size-1) mod 2^16, pd[1] = p & 0xFFFF and
\* pd[2] = (p >> 16) & 0xFFFF, so that pd[1] + 2^16 * pd[2] is p again (here: the
\* register loaded from the record holds base p and limit size-1).
C3_DescriptorEncoding ==
  (dcall.fn # "none" /\ dcall.size \in 1..65536) =>
    /\ pd[0] = dcall.size - 1
    /\ BitsOf(pd[1], 16) = Low16Bits(UintBits(dcall.p))
    /\ BitsOf(pd[2], 16) = High16Bits(UintBits(dcall.p))
    /\ LET r == IF dcall.fn = "lgdt" THEN gdtr ELSE idtr
       IN r.base = dcall.p /\ r.limit = dcall.size - 1

\* lgdt loaded a table of the largest size at an address in the upper half of memory.
C3_Witness ==
  /\ dcall.fn = "lgdt" /\ dcall.size = 65536 /\ dcall.p = UintOfHalves(65535, 32784)
  /\ gdtr.limit = 65535 /\ idtr.limit # 65535

(***************************************************************************)
(* One processor: byte-addressed RAM, EFLAGS, the I/O port space.          *)
(***************************************************************************)
RamAddrs == 0..(MemSize - 1)

\* EFLAGS bits: CF, ZF, IF, DF, and bit 1, which always reads 1.
FL_CF == 2^0
FL_ONE == 2^1
FL_ZF == 2^6
FL_IF == 2^9
FL_DF == 2^10
Bit(fl, b) == (fl \div b) % 2
SetBit(fl, b) == IF Bit(fl, b) = 1 THEN fl ELSE fl + b
ClearBit(fl, b) == IF Bit(fl, b) = 1 THEN fl - b ELSE fl

\* cld: the string instructions that follow go up in memory.
cldNop(fl) == fl
cld(fl) == ClearBit(fl, FL_DF)

\* The bytes of an int, least significant first (two's complement).
IntBytes(d) == [i \in 0..3 |-> (d \div (256^i)) % 256]

\* Operand sizes in bytes: stosb stores AL, stosl stores EAX, insl reads a dword.
ByteWidth == 1
LongAsByteWidth == ByteWidth
LongWidth == 4

\* The step of EDI after each repetition.
EdiStep(fl, w) == IF Bit(fl, FL_DF) = 1 THEN 0 - w ELSE w

\* One store of the low w bytes of word at edi.
PutUnit(m, edi, word, w) ==
  [a \in DOMAIN m |-> IF a >= edi /\ a < edi + w THEN word[a - edi] ELSE m[a]]

\* rep stos: ECX times, store the unit at ES:EDI and step EDI.
RECURSIVE RepStos(_, _, _, _, _, _)
RepStos(m, edi, ecx, word, w, fl) ==
  IF ecx = 0 THEN m
  ELSE RepStos(PutUnit(m, edi, word, w), edi + EdiStep(fl, w), ecx - 1, word, w, fl)

\* rep insl: ECX times, read a dword from port DX, store it at ES:EDI and step EDI.
\* ws are the dwords the port delivers, in order.
RECURSIVE RepIns(_, _, _, _, _)
RepIns(m, edi, ws, w, fl) ==
  IF ws = <<>> THEN m
  ELSE RepIns(PutUnit(m, edi, Head(ws), w), edi + EdiStep(fl, w), Tail(ws), w, fl)

\* The ports tried: 0x60, 0xF0, 0x1F0, 0xFFFF.  All but 0x60 latch the last
\* byte written and give it back; 0x60 answers as its device likes.
PortNums == {96, 240, 496, 65535}
Loopback == PortNums \ {96}
ByteVals == {90, 255}
PortsInit == [latch |-> [q \in PortNums |-> 0], nin |-> [q \in PortNums |-> 0]]

(***************************************************************************)
(* SpecString: stosb, stosl and insl on a RAM of MemSize bytes.  scall is  *)
(* the last call: its arguments, the RAM, the port state and EFLAGS before *)
(* it, and, for insl, the dwords the port delivered; nops counts the calls.*)
(***************************************************************************)
StosbData == {90, 511}
StoslData == {16909060, 0 - 1}
DevWords == {IntBytes(287454020), IntBytes(0 - 1430532899)}
WordSeqs(n) == [1..n -> DevWords]

\* The call stays inside the RAM.
InRam(addr, cnt, w) == addr \in 0..MemSize /\ cnt \in 0..MaxCnt /\ addr + cnt * w <= MemSize

SInit ==
  /\ SmpIdle /\ DescIdle /\ FrameIdle
  /\ ram = [a \in RamAddrs |-> 160 + a]
  /\ eflags \in {FL_ONE, FL_ONE + FL_DF}
  /\ ports = PortsInit
  /\ scall = [fn |-> "none", addr |-> 0, data |-> 0, cnt |-> 0, port |-> 0, ws |-> <<>>,
              ram |-> ram, ports |-> ports, eflags |-> eflags, nops |-> 0]

Called(fn, addr, data, cnt, port, ws) ==
  scall' = [fn |-> fn, addr |-> addr, data |-> data, cnt |-> cnt, port |-> port, ws |-> ws,
            ram |-> ram, ports |-> ports, eflags |-> eflags, nops |-> scall.nops + 1]

stosb(addr, data, cnt) ==
  /\ eflags' = cld(eflags)
  /\ ram' = RepStos(ram, addr, cnt, IntBytes(data), ByteWidth, eflags')
  /\ UNCHANGED ports

stosl(addr, data, cnt) ==
  /\ eflags' = cld(eflags)
  /\ ram' = RepStos(ram, addr, cnt, IntBytes(data), LongWidth, eflags')
  /\ UNCHANGED ports

insl(port, addr, ws) ==
  /\ eflags' = cld(eflags)
  /\ ram' = RepIns(ram, addr, ws, LongWidth, eflags')
  /\ ports' = [ports EXCEPT !.nin[ToUshort(port)] = @ + Len(ws)]

SStosb ==
  /\ scall.nops < MaxOps
  /\ \E addr \in 0..MemSize, cnt \in 0..MaxCnt, data \in StosbData :
       /\ InRam(addr, cnt, ByteWidth)
       /\ stosb(addr, data, cnt)
       /\ Called("stosb", addr, data, cnt, 0, <<>>)
  /\ OnlyUni

SStosl ==
  /\ scall.nops < MaxOps
  /\ \E addr \in 0..MemSize, cnt \in 0..MaxCnt, data \in StoslData :
       /\ InRam(addr, cnt, LongWidth)
       /\ stosl(addr, data, cnt)
       /\ Called("stosl", addr, data, cnt, 0, <<>>)
  /\ OnlyUni

SInsl ==
  /\ scall.nops < MaxOps
  /\ \E port \in {240, 496}, addr \in 0..MemSize, cnt \in 0..MaxCnt :
       /\ InRam(addr, cnt, LongWidth)
       /\ \E ws \in WordSeqs(cnt) :
            /\ insl(port, addr, ws)
            /\ Called("insl", addr, 0, cnt, port, ws)
  /\ OnlyUni

SNext == SStosb \/ SStosl \/ SInsl

SpecString == SInit /\ [][SNext]_vars

\* The bytes of the last call's target range, and the value of the dword at a.
InRange(a, addr, n) == a >= addr /\ a < addr + n
DwordAt(m, a) == m[a] + 256 * m[a + 1] + 65536 * m[a + 2] + 16777216 * m[a + 3]

\* C4: after stosb (unit: a byte) or stosl (unit: a 4-byte word, cnt counts words)
\* of cnt units of data at addr, every unit of [addr, addr+cnt) holds data (its low
\* byte for stosb, its four bytes for stosl), every byte outside the range is as it
\* was before the call, and with cnt = 0 no byte has changed.
C4_FillRange ==
  scall.fn \in {"stosb", "stosl"} =>
    LET unit == IF scall.fn = "stosb" THEN 1 ELSE 4
        n == scall.cnt * unit
    IN /\ \A i \in 0..(scall.cnt - 1) :
            /\ \A k \in 0..(unit - 1) :
                 ram[scall.addr + i * unit + k] = (scall.data \div (256^k)) % 256
            /\ (unit = 1 /\ scall.data \in 0..255) => ram[scall.addr + i] = scall.data
            /\ (unit = 4 /\ scall.data >= 0) => DwordAt(ram, scall.addr + 4 * i) = scall.data
       /\ \A a \in RamAddrs : ~InRange(a, scall.addr, n) => ram[a] = scall.ram[a]
       /\ scall.cnt = 0 => ram = scall.ram
       /\ ports = scall.ports

\* stosl, entered with the direction flag set, filled two words and left the
\* bytes behind them alone.
C4_Witness ==
  /\ scall.fn = "stosl" /\ scall.cnt = 2 /\ scall.addr = 0 /\ scall.data = 16909060
  /\ Bit(scall.eflags, FL_DF) = 1
  /\ DwordAt(ram, 4) = 16909060 /\ ram[4] = 4 /\ scall.ram[4] = 164

\* C9: insl(port, addr, cnt) reads the port exactly cnt times and stores the i-th
\* dword read at addr + 4*i, so [addr, addr + 4*cnt) holds the port's dwords in
\* arrival order; every byte outside is as before, no other port is read, and with
\* cnt = 0 neither a port read nor a memory write happens.
C9_InslSequence ==
  scall.fn = "insl" =>
    /\ Len(scall.ws) = scall.cnt
    /\ \A i \in 0..(scall.cnt - 1) : \A k \in 0..3 :
         ram[scall.addr + 4 * i + k] = scall.ws[i + 1][k]
    /\ \A a \in RamAddrs : ~InRange(a, scall.addr, 4 * scall.cnt) => ram[a] = scall.ram[a]
    /\ \A q \in PortNums :
         ports.nin[q] = scall.ports.nin[q] + (IF q = scall.port THEN scall.cnt ELSE 0)
    /\ ports.latch = scall.ports.latch
    /\ scall.cnt = 0 => ram = scall.ram /\ ports = scall.ports

\* insl stored two different dwords, in the order the port delivered them.
C9_Witness ==
  /\ scall.fn = "insl" /\ scall.cnt = 2 /\ scall.ws[1] # scall.ws[2]
  /\ Bit(scall.eflags, FL_DF) = 1
  /\ ram[scall.addr] = scall.ws[1][0] /\ ram[scall.addr + 4] = scall.ws[2][0]
  /\ ports.nin[scall.port] = 2

(***************************************************************************)
(* Histories: scall keeps the last n calls, oldest first.                  *)
(***************************************************************************)
Remember(h, c, n) == IF Len(h) < n THEN Append(h, c) ELSE Append(Tail(h), c)

\* The k-th call from the end of the history (1 is the last call).
Ago(k) == scall[Len(scall) + 1 - k]

(***************************************************************************)
(* SpecIntr: cli, sti and readeflags, in any order, from any EFLAGS.       *)
(***************************************************************************)
FlagVals == {FL_ONE + c + z + i + d : c \in {0, FL_CF}, z \in {0, FL_ZF}, i \in {0, FL_IF}, d \in {0, FL_DF}}

\* cli: interrupts off.
cli(fl) == ClearBit(fl, FL_IF)

\* sti: interrupts on.
stiNop(fl) == fl
sti(fl) == SetBit(fl, FL_IF)

\* pushfl; popl %0: the value of EFLAGS, which stays as it is.
readeflags(fl) == fl

IInit ==
  /\ SmpIdle /\ DescIdle /\ FrameIdle
  /\ ram = <<>> /\ ports = <<>>
  /\ eflags \in FlagVals
  /\ scall = <<>>

ICli ==
  /\ eflags' = cli(eflags)
  /\ scall' = Remember(scall, [fn |-> "cli", ret |-> 0], 4)
  /\ UNCHANGED <<ram, ports>> /\ OnlyUni

ISti ==
  /\ eflags' = sti(eflags)
  /\ scall' = Remember(scall, [fn |-> "sti", ret |-> 0], 4)
  /\ UNCHANGED <<ram, ports>> /\ OnlyUni

IReadeflags ==
  /\ scall' = Remember(scall, [fn |-> "readeflags", ret |-> readeflags(eflags)], 4)
  /\ UNCHANGED <<ram, eflags, ports>> /\ OnlyUni

INext == ICli \/ ISti \/ IReadeflags

SpecIntr == IInit /\ [][INext]_vars

\* The last four calls were readeflags, cli, sti, readeflags.
CliStiBracketed ==
  /\ Len(scall) >= 4
  /\ Ago(4).fn = "readeflags" /\ Ago(3).fn = "cli" /\ Ago(2).fn = "sti" /\ Ago(1).fn = "readeflags"

\* C5 as claimed: cli immediately followed by sti leaves the interrupt-enable bit,
\* as readeflags reads it, at the value it had before the cli, whether that was
\* enabled or disabled.
C5_AsClaimed ==
  CliStiBracketed => Bit(Ago(1).ret, FL_IF) = Bit(Ago(4).ret, FL_IF)

\* C5 as amended: cli immediately followed by sti leaves the interrupt-enable bit
\* set, so it is the value before the cli exactly when interrupts were enabled then;
\* every other bit readeflags reads is as before the cli.
C5_CliStiEnables ==
  CliStiBracketed =>
    /\ Bit(Ago(1).ret, FL_IF) = 1
    /\ (Bit(Ago(1).ret, FL_IF) = Bit(Ago(4).ret, FL_IF)) <=> (Bit(Ago(4).ret, FL_IF) = 1)
    /\ ClearBit(Ago(1).ret, FL_IF) = ClearBit(Ago(4).ret, FL_IF)

\* cli; sti ran with interrupts disabled before it, and readeflags then read them enabled.
C5_Witness ==
  /\ CliStiBracketed
  /\ Bit(Ago(4).ret, FL_IF) = 0 /\ Bit(Ago(1).ret, FL_IF) = 1
  /\ Bit(Ago(4).ret, FL_DF) = 1

(***************************************************************************)
(* SpecPort: outb and inb, in any order, on any port.                      *)
(***************************************************************************)
\* The port an in/out instruction addresses: all 16 bits of DX.
PortOfLowByte(port) == ToUchar(port)
PortOf(port) == ToUshort(port)

\* out %al,%dx: a loopback port latches the byte; any other port swallows it.
outb(port, data) ==
  ports' = IF PortOf(port) \in Loopback
           THEN [ports EXCEPT !.latch[PortOf(port)] = ToUchar(data)]
           ELSE ports

\* in %dx,%al: the bytes the port may answer with.
inb(port) ==
  IF PortOf(port) \in Loopback THEN {ports.latch[PortOf(port)]} ELSE ByteVals

PInit ==
  /\ SmpIdle /\ DescIdle /\ FrameIdle
  /\ ram = <<>> /\ eflags = FL_ONE
  /\ ports = PortsInit
  /\ scall = <<>>

POutb ==
  /\ \E port \in PortNums, data \in ByteVals :
       /\ outb(port, data)
       /\ scall' = Remember(scall, [fn |-> "outb", port |-> port, data |-> data], 3)
  /\ UNCHANGED <<ram, eflags>> /\ OnlyUni

PInb ==
  /\ \E port \in PortNums : \E data \in inb(port) :
       scall' = Remember(scall, [fn |-> "inb", port |-> port, data |-> data], 3)
  /\ UNCHANGED <<ram, eflags, ports>> /\ OnlyUni

PNext == POutb \/ PInb

SpecPort == PInit /\ [][PNext]_vars

\* C8: on a loopback port, outb(port, b) immediately followed by inb(port) returns
\* b; and an outb to one port between two inb of another loopback port leaves what
\* inb returns there unchanged.
C8_PortLoopback ==
  /\ (/\ Len(scall) >= 2
      /\ Ago(2).fn = "outb" /\ Ago(1).fn = "inb"
      /\ Ago(1).port = Ago(2).port /\ Ago(1).port \in Loopback)
       => Ago(1).data = Ago(2).data
  /\ (/\ Len(scall) >= 3
      /\ Ago(3).fn = "inb" /\ Ago(2).fn = "outb" /\ Ago(1).fn = "inb"
      /\ Ago(1).port = Ago(3).port /\ Ago(1).port \in Loopback /\ Ago(2).port # Ago(1).port)
       => Ago(1).data = Ago(3).data

\* 0xFF went out to port 0x1F0 and came back, after port 0xF0 had latched another byte.
C8_Witness ==
  /\ Len(scall) >= 3
  /\ Ago(3) = [fn |-> "outb", port |-> 240, data |-> 90]
  /\ Ago(2) = [fn |-> "outb", port |-> 496, data |-> 255]
  /\ Ago(1) = [fn |-> "inb", port |-> 496, data |-> 255]

(***************************************************************************)
(* struct trapframe, laid out as the C compiler lays out a struct: every   *)
(* member at the next offset that is a multiple of its alignment.          *)
(***************************************************************************)
TypeSize(t) == IF t = "uint" THEN 4 ELSE 2
TypeAlign(t) == IF t = "uint" THEN 4 ELSE 2

U(n) == <<n, "uint">>
S(n) == <<n, "ushort">>

FieldsWithoutOesp ==
  << U("edi"), U("esi"), U("ebp"), U("ebx"), U("edx"), U("ecx"), U("eax"),
     S("gs"), S("padding1"), S("fs"), S("padding2"), S("es"), S("padding3"),
     S("ds"), S("padding4"), U("trapno"),
     U("err"), U("eip"), S("cs"), S("padding5"), U("eflags"),
     U("esp"), S("ss"), S("padding6") >>

FieldsWithoutPadding4 ==
  << U("edi"), U("esi"), U("ebp"), U("oesp"), U("ebx"), U("edx"), U("ecx"), U("eax"),
     S("gs"), S("padding1"), S("fs"), S("padding2"), S("es"), S("padding3"),
     S("ds"), U("trapno"),
     U("err"), U("eip"), S("cs"), S("padding5"), U("eflags"),
     U("esp"), S("ss"), S("padding6") >>

Fields ==
  << U("edi"), U("esi"), U("ebp"), U("oesp"), U("ebx"), U("edx"), U("ecx"), U("eax"),
     S("gs"), S("padding1"), S("fs"), S("padding2"), S("es"), S("padding3"),
     S("ds"), S("padding4"), U("trapno"),
     U("err"), U("eip"), S("cs"), S("padding5"), U("eflags"),
     U("esp"), S("ss"), S("padding6") >>

NFields == Len(Fields)
FieldName(i) == Fields[i][1]
FieldSize(i) == TypeSize(Fields[i][2])
FieldAlign(i) == TypeAlign(Fields[i][2])
AlignUp(n, a) == ((n + a - 1) \div a) * a

\* offsetof of the i-th member, and the offset just past it.
RECURSIVE LayOut(_)
LayOut(i) ==
  IF i = 1 THEN 0
  ELSE AlignUp(LayOut(i - 1) + FieldSize(i - 1), FieldAlign(i))

Layout == [i \in 1..NFields |-> LayOut(i)]
FieldOffset(i) == Layout[i]
FieldEnd(i) == FieldOffset(i) + FieldSize(i)

\* sizeof(struct trapframe): the end of the last member, rounded up to the
\* alignment of the struct (that of a uint).
SizeOfTrapframe == AlignUp(FieldEnd(NFields), TypeAlign("uint"))

Names == {FieldName(i) : i \in 1..NFields}
Indexes == [n \in Names |-> CHOOSE i \in 1..NFields : FieldName(i) = n]
Index(name) == Indexes[name]
OffsetOf(name) == FieldOffset(Index(name))

\* The two values stored: every byte 0xFF, every byte 0x5A.
FieldVals == {255, 90}

(***************************************************************************)
(* SpecFrame: a zeroed trap frame in memory, into whose members values are *)
(* stored (tf->name = v).  shadow remembers what each member was given.    *)
(***************************************************************************)
FInit ==
  /\ SmpIdle /\ DescIdle /\ UniIdle
  /\ tf = [a \in 0..(SizeOfTrapframe - 1) |-> 0]
  /\ shadow = [n \in {} |-> 0]

\* tf->name = v, v being FieldSize bytes b.
FStore(i, b) ==
  /\ Cardinality(DOMAIN shadow) < MaxStores
  /\ FieldName(i) \notin DOMAIN shadow
  /\ tf' = [a \in DOMAIN tf |-> IF a >= FieldOffset(i) /\ a < FieldEnd(i) THEN b ELSE tf[a]]
  /\ shadow' = [n \in DOMAIN shadow \cup {FieldName(i)} |-> IF n = FieldName(i) THEN b ELSE shadow[n]]
  /\ OnlyFrame

FStoreUint == \E i \in 1..NFields, b \in FieldVals : Fields[i][2] = "uint" /\ FStore(i, b)
FStoreUshort == \E i \in 1..NFields, b \in FieldVals : Fields[i][2] = "ushort" /\ FStore(i, b)

FNext == FStoreUint \/ FStoreUshort

SpecFrame == FInit /\ [][FNext]_vars

\* The sum of the sizes of the members declared before the i-th.
RECURSIVE SumSizes(_)
SumSizes(i) == IF i = 1 THEN 0 ELSE SumSizes(i - 1) + FieldSize(i - 1)
SizesBeforeAll == [i \in 1..NFields |-> SumSizes(i)]
SizesBefore(i) == SizesBeforeAll[i]

\* The selector sel fills the low half of a 32-bit slot and pad the high half.
PaddedSlot(sel, pad) ==
  /\ OffsetOf(sel) % 4 = 0
  /\ FieldSize(Index(sel)) = 2 /\ FieldSize(Index(pad)) = 2
  /\ OffsetOf(pad) = OffsetOf(sel) + 2

\* The bytes of the frame that belong to a stored member hold what was stored, and
\* all other bytes are still zero.
StoredWhereLaidOut ==
  \A a \in DOMAIN tf :
    LET owners == {n \in DOMAIN shadow : a >= SizesBefore(Index(n)) /\ a < SizesBefore(Index(n)) + FieldSize(Index(n))}
    IN IF owners = {} THEN tf[a] = 0 ELSE \A n \in owners : tf[a] = shadow[n]

\* The table of offsets: every member at the sum of the sizes before it, the
\* selectors in padded 32-bit slots, the members in the order the hardware and
\* the entry stub push them.
GapFreeTable ==
  /\ \A i \in 1..NFields : FieldOffset(i) = SizesBefore(i)
  /\ SizeOfTrapframe = SizesBefore(NFields) + FieldSize(NFields)
  /\ OffsetOf("edi") = 0
  /\ PaddedSlot("gs", "padding1") /\ PaddedSlot("fs", "padding2")
  /\ PaddedSlot("es", "padding3") /\ PaddedSlot("ds", "padding4")
  /\ PaddedSlot("cs", "padding5") /\ PaddedSlot("ss", "padding6")
  /\ OffsetOf("fs") = OffsetOf("gs") + 4 /\ OffsetOf("es") = OffsetOf("fs") + 4
  /\ OffsetOf("ds") = OffsetOf("es") + 4
  /\ OffsetOf("trapno") = OffsetOf("ds") + 4
  /\ OffsetOf("err") = OffsetOf("trapno") + 4
  /\ OffsetOf("eip") = OffsetOf("err") + 4
  /\ OffsetOf("cs") = OffsetOf("eip") + 4
  /\ OffsetOf("eflags") = OffsetOf("cs") + 4
  /\ OffsetOf("esp") = OffsetOf("eflags") + 4
  /\ OffsetOf("ss") = OffsetOf("esp") + 4
  /\ OffsetOf("esp") = SizeOfTrapframe - 8

\* C6: the trap frame is gap-free: every member's offset is the sum of the sizes of
\* the members declared before it; edi is at 0; gs, fs, es, ds (and cs, ss) each fill
\* a 32-bit slot with their padding; trapno follows the four padded selectors, err
\* follows trapno, then eip, the cs slot and eflags; esp and the ss slot are the last
\* 8 bytes; and a value stored into a member lies in exactly those bytes.
C6_FrameLayout == GapFreeTable /\ StoredWhereLaidOut

\* trapno and ds were stored: trapno lies in the four bytes after the ds slot.
C6_Witness ==
  /\ DOMAIN shadow = {"trapno", "ds"}
  /\ shadow["trapno"] = 255 /\ shadow["ds"] = 90
  /\ tf[OffsetOf("ds")] = 90 /\ tf[OffsetOf("ds") + 2] = 0
  /\ tf[OffsetOf("ds") + 4] = 255 /\ tf[OffsetOf("ds") + 7] = 255 /\ tf[OffsetOf("ds") + 8] = 0

\* The 32-bit members declared before gs, in order.
GpBlock == SubSeq(Fields, 1, Index("gs") - 1)

\* C7 as claimed: the general-purpose block is seven 32-bit values, one of them the
\* ignored slot, and the selector block begins right after those seven slots.
C7_AsClaimed ==
  "gs" \in DOMAIN shadow =>
    /\ Len(GpBlock) = 7
    /\ OffsetOf("gs") = 7 * 4
    /\ tf[7 * 4] = shadow["gs"]

\* The general-purpose block as the struct declares it.
EightSlots ==
  /\ GpBlock = << U("edi"), U("esi"), U("ebp"), U("oesp"), U("ebx"), U("edx"), U("ecx"), U("eax") >>
  /\ \A i \in 1..8 : FieldOffset(i) = 4 * (i - 1)
  /\ OffsetOf("gs") = 8 * 4

\* C7 as amended: the general-purpose block is the eight 32-bit values pusha
\* pushes, in the order edi, esi, ebp, oesp, ebx, edx, ecx, eax, of which oesp is the
\* ignored slot; the selector block begins right after those eight slots, and a
\* value stored into gs lies in the two bytes there.
C7_EightRegisters ==
  /\ EightSlots
  /\ "gs" \in DOMAIN shadow => tf[32] = shadow["gs"] /\ tf[33] = shadow["gs"]
  /\ "eax" \in DOMAIN shadow => \A a \in 28..31 : tf[a] = shadow["eax"]

\* eax, the eighth register, and gs were stored: gs lies right after eax.
C7_Witness ==
  /\ DOMAIN shadow = {"eax", "gs"}
  /\ shadow["eax"] = 255 /\ shadow["gs"] = 90
  /\ tf[28] = 255 /\ tf[31] = 255 /\ tf[32] = 90 /\ tf[33] = 90 /\ tf[34] = 0

====
